---- MODULE Spec2Model ----
(***************************************************************************)
(* gcplog-rs: a tracing Layer that renders every event as one JSON line    *)
(* for Cloud Logging and correlates it with the trace_id of the enclosing  *)
(* spans (src/src/lib.rs).                                                 *)
(*                                                                         *)
(* Strings are sequences of one-character strings, so that formatting      *)
(* (Debug rendering, trimming, the projects/../traces/.. composition) is    *)
(* computed and not assumed.  Option<String> is a record [some, val].      *)
(* The fields of LogEntry that no property below reads (message, time,     *)
(* sourceLocation) are left out of the record.                             *)
(***************************************************************************)
EXTENDS Integers, Sequences, FiniteSets, TLC

\* ---------------------------------------------------------------- bounds
\* Span handles the application holds at one time.
MaxSpans == 3

Threads == {"t1", "t2"}

\* ---------------------------------------------------------------- strings
NONE == [some |-> FALSE, val |-> <<>>]
Some(s) == [some |-> TRUE, val |-> s]

Whitespace == {" ", "\n"}

RECURSIVE trim_start(_)
trim_start(s) ==
    IF s # <<>> /\ Head(s) \in Whitespace THEN trim_start(Tail(s)) ELSE s

RECURSIVE trim_end(_)
trim_end(s) ==
    IF s # <<>> /\ s[Len(s)] \in Whitespace
    THEN trim_end(SubSeq(s, 1, Len(s) - 1))
    ELSE s

\* str::trim
trim(s) == trim_end(trim_start(s))

\* <str as Debug>::fmt escapes the quote and the backslash ...
RECURSIVE escape_debug(_)
escape_debug(s) ==
    IF s = <<>> THEN <<>>
    ELSE (IF Head(s) \in {"\"", "\\"} THEN <<"\\", Head(s)>> ELSE <<Head(s)>>)
         \o escape_debug(Tail(s))

\* A field value as the span! macro passes it: `trace_id = %x` wraps x in
\* DisplayValue, whose Debug is x's Display; `trace_id = "x"` is a &str,
\* which Visit::record_str hands to record_debug as a &str.
Display(s) == [kind |-> "display", s |-> s]
Str(s) == [kind |-> "str", s |-> s]

\* format!("{value:?}")
format_debug(value) ==
    IF value.kind = "display" THEN value.s
    ELSE <<"\"">> \o escape_debug(value.s) \o <<"\"">>


\* ---------------------------------------------------------------- levels
\* tracing::Level, least severe first; LevelFilter adds OFF.
Levels == <<"TRACE", "DEBUG", "INFO", "WARN", "ERROR">>

LevelSet == {Levels[i] : i \in DOMAIN Levels}

LevelFilters == LevelSet \cup {"OFF"}

rank(l) == CHOOSE i \in DOMAIN Levels : Levels[i] = l

\* LevelFilter as a per-layer Filter: a callsite passes when it is at least
\* as severe as the filter; OFF passes nothing.
filter_enabled(level, filter) ==
    filter # "OFF" /\ rank(level) >= rank(filter)

\* Option<LevelFilter>::None
NoLevel == "None"

\* ---------------------------------------------------------------- inputs
Field(name, value) == [name |-> name, value |-> value]

SpanInput(level, attrs) == [level |-> level, attrs |-> attrs]

\* What the metadata service does when it is asked for the project id.
MetadataStates ==
    { [kind |-> k, body |-> <<>>] :
        k \in {"network_error", "timeout", "status_error", "body_error"} }
    \cup
    { [kind |-> "ok", body |-> b] :
        b \in { <<"q">>, <<"q", "\n">>, <<>>, <<" ">>, <<"<">> } }

Configs ==
    { [gcp_project_id |-> p, level_filter |-> l] :
        p \in {NONE, Some(<<"p">>)}, l \in LevelFilters \cup {NoLevel} }

\* ---------------------------------------------------------------- state
VARIABLES
    config,         \* the Config handed to init
    metadata,       \* the metadata service's behaviour
    net_calls,      \* requests made to the metadata service
    phase,          \* "start" before init, "running" after
    gcp_project_id, \* GcpLayer.gcp_project_id
    level_filter,   \* the LevelFilter the layer is wrapped in
    spans,          \* span handles; a registered one has registry data
    stack,          \* per thread: the handles entered, innermost last
    panicked,       \* per thread: a panic unwound out of a logging call
    last_op,        \* the latest event or record call and what became of it
    walking         \* per thread: the call of on_event it is in the middle of

vars == <<config, metadata, net_calls, phase, gcp_project_id, level_filter,
          spans, stack, panicked, last_op, walking>>

SpanIds == 1..MaxSpans

\* A thread that is in no call of on_event.
NotWalking == [active |-> FALSE, level |-> "", chain |-> <<>>, trace |-> NONE]

FreeSpan ==
    [live |-> FALSE, registered |-> FALSE, parent |-> 0, owner |-> "",
     level |-> "", attrs |-> <<>>, ext |-> NONE]

NoLine == [some |-> FALSE, severity |-> "", trace |-> NONE]

NoOp ==
    [op |-> "none", level |-> "", reached |-> FALSE, line |-> NoLine,
     span |-> 0]

\* An event of the given level: whether on_event ran for it, and the line
\* it wrote to stderr.
EventOp(level, reached, line) ==
    [op |-> "event", level |-> level, reached |-> reached, line |-> line,
     span |-> 0]

\* A record call on span s.
RecordOp(s) ==
    [op |-> "record", level |-> "", reached |-> FALSE, line |-> NoLine,
     span |-> s]

\* ---------------------------------------------------------------- init
\* fetch_project_id: Err when the request or the read of the body fails,
\* otherwise Ok of the trimmed body, whatever the body is.
fetch_project_id(md) ==
    IF md.kind = "ok"
    THEN [ok |-> TRUE, val |-> trim(md.body)]
    ELSE [ok |-> FALSE, val |-> <<>>]

\* "unknown".to_string()
Unknown == <<"u", "n", "k", "n", "o", "w", "n">>

\* The same chain with or in place of or_else: the request is made first.
resolve_project_id_eager(cfg, md) ==
    LET r == fetch_project_id(md)
    IN  [id |-> IF cfg.gcp_project_id.some THEN cfg.gcp_project_id.val
                ELSE IF r.ok THEN r.val ELSE Unknown,
         calls |-> 1]

\* config.gcp_project_id.or_else(|| fetch_project_id().ok())
\*                      .unwrap_or_else(|| "unknown".to_string())
\* with the number of requests the evaluation makes.
resolve_project_id(cfg, md) ==
    IF cfg.gcp_project_id.some
    THEN [id |-> cfg.gcp_project_id.val, calls |-> 0]
    ELSE LET r == fetch_project_id(md)
         IN  [id |-> IF r.ok THEN r.val ELSE Unknown, calls |-> 1]

\* A default of LevelFilter::TRACE.
resolve_level_filter_trace(cfg) ==
    IF cfg.level_filter = NoLevel THEN "TRACE" ELSE cfg.level_filter

\* config.level_filter.unwrap_or(LevelFilter::INFO)
resolve_level_filter(cfg) ==
    IF cfg.level_filter = NoLevel THEN "INFO" ELSE cfg.level_filter

init ==
    /\ phase = "start"
    /\ phase' = "running"
    /\ gcp_project_id' = resolve_project_id(config, metadata).id
    /\ net_calls' = net_calls + resolve_project_id(config, metadata).calls
    /\ level_filter' = resolve_level_filter(config)
    /\ UNCHANGED <<config, metadata, spans, stack, panicked, last_op, walking>>

\* ---------------------------------------------------------------- spans
\* A visitor that takes the value of any field, whatever its name.
record_debug_any_field(visitor, field) == Some(format_debug(field.value))

\* TraceIdVisitor::record_debug
record_debug(visitor, field) ==
    IF field.name = "trace_id"
    THEN Some(format_debug(field.value))
    ELSE visitor

\* attrs.record(&mut visitor): every field of the span is visited in order.
RECURSIVE record_fields(_, _)
record_fields(attrs, visitor) ==
    IF attrs = <<>> THEN visitor
    ELSE record_fields(Tail(attrs), record_debug(visitor, Head(attrs)))

\* GcpLayer::on_new_span: the extension after the call, given the one before.
on_new_span(attrs, ext) ==
    LET visitor == record_fields(attrs, NONE)
    IN  IF visitor.some THEN visitor ELSE ext

\* An on_record that stores the value recorded later.
on_record_store(ext, value) == Some(format_debug(value))

\* The Layer trait's default on_record, which GcpLayer does not override.
on_record(ext, value) == ext

Registered(s) == spans[s].live /\ spans[s].registered

\* The registry's span stack of a thread: the entered spans it knows.
span_stack(t) == SelectSeq(stack[t], LAMBDA s : Registered(s))

\* Registry::current_span
current_span(t) ==
    IF span_stack(t) = <<>> THEN 0 ELSE span_stack(t)[Len(span_stack(t))]

FreeIds == {s \in SpanIds : ~spans[s].live}

InStack(t, s) == \E i \in DOMAIN stack[t] : stack[t][i] = s

\* The handles of thread t that are not entered.  The threads use spans the
\* way the crate's test and example do: a span is created, entered, exited
\* and dropped innermost first, so at most the newest one is not entered.
Idle(t) == {s \in SpanIds : spans[s].live /\ spans[s].owner = t /\ ~InStack(t, s)}

\* A filter that lets every span through.
span_enabled_always(level) == TRUE

\* layer.with_filter(level_filter), for a span: whether the layer is told
\* of a span of this level.
span_enabled(level) == filter_enabled(level, level_filter)

\* span!(level, attrs): a callsite the filter disables gives a handle with
\* no registry data, and the layer never hears of it.
new_span(t, level, attrs) ==
    /\ phase = "running"
    /\ ~panicked[t] /\ ~walking[t].active
    /\ FreeIds # {}
    /\ Idle(t) = {}
    /\ LET id == CHOOSE s \in FreeIds : \A r \in FreeIds : s <= r
           on == span_enabled(level)
       IN  spans' = [spans EXCEPT ![id] =
                [live |-> TRUE, registered |-> on,
                 parent |-> IF on THEN current_span(t) ELSE 0,
                 owner |-> t, level |-> level, attrs |-> attrs,
                 ext |-> IF on THEN on_new_span(attrs, spans[id].ext)
                         ELSE spans[id].ext]]
    /\ UNCHANGED <<config, metadata, net_calls, phase, gcp_project_id, walking,
                   level_filter, stack, panicked, last_op>>

\* span.enter()
enter(t, s) ==
    /\ phase = "running"
    /\ ~panicked[t] /\ ~walking[t].active
    /\ s \in Idle(t)
    /\ stack' = [stack EXCEPT ![t] = Append(@, s)]
    /\ UNCHANGED <<config, metadata, net_calls, phase, gcp_project_id, walking,
                   level_filter, spans, panicked, last_op>>

\* The guard of the innermost entered span is dropped.
exit(t) ==
    /\ phase = "running"
    /\ ~panicked[t] /\ ~walking[t].active
    /\ stack[t] # <<>>
    /\ Idle(t) = {}
    /\ stack' = [stack EXCEPT ![t] = SubSeq(@, 1, Len(@) - 1)]
    /\ UNCHANGED <<config, metadata, net_calls, phase, gcp_project_id, walking,
                   level_filter, spans, panicked, last_op>>

\* span.record("trace_id", value) on a span that already exists.
record(t, s, value) ==
    /\ phase = "running"
    /\ ~panicked[t] /\ ~walking[t].active
    /\ spans[s].live /\ spans[s].owner = t
    /\ spans' = [spans EXCEPT ![s].ext =
                    IF spans[s].registered THEN on_record(@, value) ELSE @]
    /\ last_op' = RecordOp(s)
    /\ UNCHANGED <<config, metadata, net_calls, phase, gcp_project_id, walking,
                   level_filter, stack, panicked>>

\* The last handle of a span is dropped: the registry clears the slot, and
\* the extensions with it.
close(t, s) ==
    /\ phase = "running"
    /\ ~panicked[t] /\ ~walking[t].active
    /\ s \in Idle(t)
    /\ \A c \in SpanIds : ~(Registered(c) /\ spans[c].parent = s)
    /\ spans' = [spans EXCEPT ![s] = FreeSpan]
    /\ UNCHANGED <<config, metadata, net_calls, phase, gcp_project_id, walking,
                   level_filter, stack, panicked, last_op>>

\* ---------------------------------------------------------------- events
\* SpanRef::is_enabled_for(filter)
is_enabled_for(s) == filter_enabled(spans[s].level, level_filter)

\* Context::lookup_current: the innermost entered span this layer's filter
\* enabled (0: none).
RECURSIVE lookup_current_in(_)
lookup_current_in(st) ==
    IF st = <<>> THEN 0
    ELSE IF is_enabled_for(st[Len(st)]) THEN st[Len(st)]
    ELSE lookup_current_in(SubSeq(st, 1, Len(st) - 1))

lookup_current(t) == lookup_current_in(span_stack(t))

\* SpanRef::scope: the span and its ancestors, innermost first, without the
\* ones the filter disabled.
RECURSIVE scope(_)
scope(s) ==
    IF s = 0 THEN <<>>
    ELSE (IF is_enabled_for(s) THEN <<s>> ELSE <<>>) \o scope(spans[s].parent)

RECURSIVE reverse(_)
reverse(q) == IF q = <<>> THEN <<>> ELSE Append(reverse(Tail(q)), Head(q))

\* The scope walked as Scope yields it, innermost first.
from_leaf(q) == q

\* Scope::from_root
from_root(q) == reverse(q)

\* An event scope taken from one span stack shared by all the threads.
event_scope_shared(t) ==
    from_root(scope(lookup_current_in(span_stack("t1") \o span_stack("t2"))))

\* ctx.event_scope(event) of an event raised by thread t, then from_root().
event_scope(t) == from_root(scope(lookup_current(t)))

\* format!("projects/{}/traces/{t}", self.gcp_project_id)
trace_path(project, t) == <<"projects/">> \o project \o <<"/traces/">> \o t

\* The body of the loop of on_event for one span of the chain.
visit_span(trace, s) ==
    IF spans[s].ext.some
    THEN Some(trace_path(gcp_project_id, spans[s].ext.val))
    ELSE trace

\* for span in scope.from_root() { ... }
RECURSIVE walk(_, _)
walk(chain, trace) ==
    IF chain = <<>> THEN trace
    ELSE walk(Tail(chain), visit_span(trace, Head(chain)))

\* The first statements of on_event: trace starts as None and the loop runs
\* over the scope of the event, which thread t raised.
resolve_trace(t) == walk(event_scope(t), NONE)

\* The LogEntry on_event builds; a trace of None is a key left out of the
\* serialized line.
on_event(t, level) ==
    [some |-> TRUE, severity |-> level, trace |-> resolve_trace(t)]

\* The stack unwinds out of a panicking thread: its guards and its span
\* handles are dropped.
unwind(t) ==
    [s \in SpanIds |-> IF spans[s].owner = t THEN FreeSpan ELSE spans[s]]

\* info!(..), warn!(..), ...: the filter drops the event or the layer's
\* on_event runs; eprintln! writes the line or, when the write to stderr
\* fails, panics.
event(t, level, write_ok) ==
    /\ phase = "running"
    /\ ~panicked[t] /\ ~walking[t].active
    /\ IF ~filter_enabled(level, level_filter)
       THEN /\ last_op' = EventOp(level, FALSE, NoLine)
            /\ UNCHANGED <<panicked, spans, stack>>
       ELSE IF write_ok
       THEN /\ last_op' = EventOp(level, TRUE, on_event(t, level))
            /\ UNCHANGED <<panicked, spans, stack>>
       ELSE /\ last_op' = EventOp(level, TRUE, NoLine)
            /\ panicked' = [panicked EXCEPT ![t] = TRUE]
            /\ spans' = unwind(t)
            /\ stack' = [stack EXCEPT ![t] = <<>>]
    /\ UNCHANGED <<config, metadata, net_calls, phase, gcp_project_id, walking,
                   level_filter>>

\* on_event step by step, for threads that run it at the same time.  The
\* filter lets the event through, and event_scope and from_root collect the
\* chain.
on_event_begin(t, level) ==
    /\ phase = "running"
    /\ ~panicked[t] /\ ~walking[t].active
    /\ filter_enabled(level, level_filter)
    /\ walking' = [walking EXCEPT ![t] =
            [active |-> TRUE, level |-> level, chain |-> event_scope(t),
             trace |-> NONE]]
    /\ UNCHANGED <<config, metadata, net_calls, phase, gcp_project_id,
                   level_filter, spans, stack, panicked, last_op>>

\* One turn of the loop: the extensions of the next span are read.
on_event_visit(t) ==
    /\ walking[t].active
    /\ walking[t].chain # <<>>
    /\ walking' = [walking EXCEPT
            ![t].trace = visit_span(@, Head(walking[t].chain)),
            ![t].chain = Tail(@)]
    /\ UNCHANGED <<config, metadata, net_calls, phase, gcp_project_id,
                   level_filter, spans, stack, panicked, last_op>>

\* The entry is built and eprintln! writes it, or panics.
on_event_write(t, write_ok) ==
    /\ walking[t].active
    /\ walking[t].chain = <<>>
    /\ walking' = [walking EXCEPT ![t] = NotWalking]
    /\ IF write_ok
       THEN /\ last_op' = EventOp(walking[t].level, TRUE,
                                  [some |-> TRUE, severity |-> walking[t].level,
                                   trace |-> walking[t].trace])
            /\ UNCHANGED <<panicked, spans, stack>>
       ELSE /\ last_op' = EventOp(walking[t].level, TRUE, NoLine)
            /\ panicked' = [panicked EXCEPT ![t] = TRUE]
            /\ spans' = unwind(t)
            /\ stack' = [stack EXCEPT ![t] = <<>>]
    /\ UNCHANGED <<config, metadata, net_calls, phase, gcp_project_id,
                   level_filter>>

\* ---------------------------------------------------------------- spec
RecordValues == {Display(<<"b">>)}

StartState ==
    /\ net_calls = 0
    /\ phase = "start"
    /\ gcp_project_id = <<>>
    /\ level_filter = "OFF"
    /\ spans = [s \in SpanIds |-> FreeSpan]
    /\ stack = [t \in Threads |-> <<>>]
    /\ panicked = [t \in Threads |-> FALSE]
    /\ last_op = NoOp
    /\ walking = [t \in Threads |-> NotWalking]

\* What the threads do once the subscriber is installed, with the threads,
\* the spans and the event levels drawn from the given sets.
Run(T, SI, EL) ==
    \/ \E t \in T, i \in SI : new_span(t, i.level, i.attrs)
    \/ \E t \in T, s \in SpanIds : enter(t, s)
    \/ \E t \in T : exit(t)
    \/ \E t \in T, s \in SpanIds, v \in RecordValues : record(t, s, v)
    \/ \E t \in T, s \in SpanIds : close(t, s)
    \/ \E t \in T, l \in EL, ok \in BOOLEAN : event(t, l, ok)

\* Two threads under the default filter, with an explicit project id.
SpanInputs ==
    { SpanInput("INFO", <<Field("user", Display(<<"a">>))>>),
      SpanInput("INFO", <<Field("trace_id", Display(<<"a">>))>>),
      SpanInput("INFO", <<Field("trace_id", Str(<<"a">>))>>) }

Init ==
    /\ config = [gcp_project_id |-> Some(<<"p">>), level_filter |-> NoLevel]
    /\ metadata = [kind |-> "network_error", body |-> <<>>]
    /\ StartState

Next == init \/ Run(Threads, SpanInputs, {"DEBUG", "INFO"})

Spec == Init /\ [][Next]_vars

\* One thread under every level filter a Config can name, with spans below
\* and above the default.
FilterSpanInputs ==
    { SpanInput("DEBUG", <<Field("trace_id", Display(<<"a">>))>>),
      SpanInput("INFO", <<Field("trace_id", Display(<<"b">>))>>),
      SpanInput("INFO", <<>>) }

InitFilter ==
    /\ config \in { [gcp_project_id |-> Some(<<"p">>), level_filter |-> l] :
                      l \in LevelFilters \cup {NoLevel} }
    /\ metadata = [kind |-> "network_error", body |-> <<>>]
    /\ StartState

NextFilter == init \/ Run({"t1"}, FilterSpanInputs, LevelSet)

SpecFilter == InitFilter /\ [][NextFilter]_vars

\* Every Config against every behaviour of the metadata service, then one
\* thread that logs.
InitSpanInputs ==
    { SpanInput("ERROR", <<Field("trace_id", Display(<<"a">>))>>),
      SpanInput("ERROR", <<Field("trace_id", Str(<<"a">>))>>) }

InitAny ==
    /\ config \in Configs
    /\ metadata \in MetadataStates
    /\ StartState

NextInit == init \/ Run({"t1"}, InitSpanInputs, {"ERROR"})

SpecInit == InitAny /\ [][NextInit]_vars

\* Two threads whose calls of on_event interleave span by span with each
\* other's and with the creation and the destruction of spans.
WalkSpanInputs ==
    { SpanInput("INFO", <<Field("trace_id", Display(<<"a">>))>>),
      SpanInput("INFO", <<Field("trace_id", Display(<<"b">>))>>) }

NextWalk ==
    \/ init
    \/ \E t \in Threads, i \in WalkSpanInputs : new_span(t, i.level, i.attrs)
    \/ \E t \in Threads, s \in SpanIds : enter(t, s)
    \/ \E t \in Threads : exit(t)
    \/ \E t \in Threads, s \in SpanIds : close(t, s)
    \/ \E t \in Threads : on_event_begin(t, "INFO")
    \/ \E t \in Threads : on_event_visit(t)
    \/ \E t \in Threads, ok \in BOOLEAN : on_event_write(t, ok)

SpecWalk == Init /\ [][NextWalk]_vars


\* ---------------------------------------------------------------- properties
\* What the properties say of an event's trace is said of the trace on_event
\* resolves for a thread in the state at hand: event writes that trace.

\* The span a thread is inside as the registry sees it, and that span's
\* ancestors by the parent relation, outermost first.
RECURSIVE Ancestry(_)
Ancestry(s) == IF s = 0 THEN <<>> ELSE Append(Ancestry(spans[s].parent), s)

Enclosing(t) == Ancestry(current_span(t))

\* The spans of a thread's enclosing chain that carry an attachment.
Carrying(t) == SelectSeq(Enclosing(t), LAMBDA s : spans[s].ext.some)

Last(q) == q[Len(q)]

HasTraceId(attrs) == \E i \in DOMAIN attrs : attrs[i].name = "trace_id"

\* The value of the trace_id field a span was created with.
RECURSIVE TraceIdOf(_)
TraceIdOf(attrs) ==
    IF attrs[Len(attrs)].name = "trace_id" THEN attrs[Len(attrs)].value
    ELSE TraceIdOf(SubSeq(attrs, 1, Len(attrs) - 1))

Running == phase = "running"

\* C1: the trace of an event is the attachment of the innermost span of its
\* enclosing chain that carries one.
InnermostWins ==
    Running =>
        \A t \in Threads :
            Carrying(t) # <<>> =>
                resolve_trace(t) =
                    Some(trace_path(gcp_project_id,
                                    spans[Last(Carrying(t))].ext.val))

\* An event was written from inside two nested spans that carry different
\* attachments, with the inner one's and not the outer one's.
InnerWitness ==
    /\ last_op.op = "event" /\ last_op.line.some
    /\ \E t \in Threads :
        /\ Len(Carrying(t)) >= 2
        /\ spans[Carrying(t)[1]].ext # spans[Last(Carrying(t))].ext
        /\ last_op.line.trace =
             Some(trace_path(gcp_project_id, spans[Last(Carrying(t))].ext.val))
        /\ last_op.line.trace #
             Some(trace_path(gcp_project_id, spans[Carrying(t)[1]].ext.val))

\* C2: the entry has a trace exactly when a span of the enclosing chain
\* carries an attachment; none when no enclosing span was created with a
\* trace_id field, and none outside every span.
TraceIffAttachment ==
    Running =>
        \A t \in Threads :
            /\ resolve_trace(t).some <=> Carrying(t) # <<>>
            /\ (\A i \in DOMAIN Enclosing(t) :
                    ~HasTraceId(spans[Enclosing(t)[i]].attrs))
                => resolve_trace(t) = NONE

\* A line was written with no trace: from a thread
\* inside a span that has fields but no trace_id, while another span that
\* carries an attachment is alive.
NoTraceWitness ==
    /\ last_op.op = "event" /\ last_op.line.some
    /\ last_op.line.trace = NONE
    /\ \E t \in Threads :
        /\ Enclosing(t) # <<>>
        /\ \A i \in DOMAIN Enclosing(t) :
              spans[Enclosing(t)[i]].attrs # <<>>
              /\ ~HasTraceId(spans[Enclosing(t)[i]].attrs)
    /\ \E s \in SpanIds : spans[s].ext.some

\* C3: inside a single span created with trace_id = v, the trace is
\* projects/<project>/traces/<v>, v's own characters and no others.
ExactTracePath ==
    Running =>
        \A t \in Threads :
            (Len(Enclosing(t)) = 1 /\ HasTraceId(spans[Enclosing(t)[1]].attrs))
            => /\ spans[Enclosing(t)[1]].ext =
                    Some(TraceIdOf(spans[Enclosing(t)[1]].attrs).s)
               /\ resolve_trace(t) =
                    Some(<<"projects/">> \o gcp_project_id \o <<"/traces/">>
                         \o TraceIdOf(spans[Enclosing(t)[1]].attrs).s)

\* A span thread t created and is inside, whose attachment gives trace.
FromOwnChain(t, trace) ==
    \E i \in DOMAIN Enclosing(t) :
        /\ spans[Enclosing(t)[i]].owner = t
        /\ InStack(t, Enclosing(t)[i])
        /\ spans[Enclosing(t)[i]].ext.some
        /\ trace = Some(trace_path(gcp_project_id,
                                   spans[Enclosing(t)[i]].ext.val))

\* C4: while two threads run on_event and create and destroy spans in any
\* interleaving, the spans a call walks are spans its own thread created
\* and is inside, and the trace it has resolved so far, which is the one it
\* writes, is built from the attachment of such a span.
NoCrossContamination ==
    Running =>
        \A t \in Threads :
            walking[t].active =>
                /\ \A i \in DOMAIN walking[t].chain :
                      /\ spans[walking[t].chain[i]].owner = t
                      /\ InStack(t, walking[t].chain[i])
                /\ walking[t].trace.some => FromOwnChain(t, walking[t].trace)

\* A thread has resolved its trace and is about to write, while the other
\* thread, inside a span with a different attachment, has just written a
\* line with its own.
TwoChainsWitness ==
    /\ last_op.op = "event" /\ last_op.line.some
    /\ \E t, u \in Threads :
        /\ t # u
        /\ walking[t].active /\ walking[t].chain = <<>>
        /\ walking[t].trace.some
        /\ Carrying(u) # <<>>
        /\ last_op.line.trace =
             Some(trace_path(gcp_project_id, spans[Last(Carrying(u))].ext.val))
        /\ last_op.line.trace # walking[t].trace

\* What a span's attachment is from its creation on: the rendering of the
\* trace_id field it was created with, or nothing.
CreatedWith(s) ==
    IF spans[s].registered /\ HasTraceId(spans[s].attrs)
    THEN Some(format_debug(TraceIdOf(spans[s].attrs)))
    ELSE NONE

\* C6: a live span's attachment is the one it was created with, no step
\* changes the attachment of a span that stays alive, and a destroyed span
\* has none.
WriteOnce ==
    /\ [](\A s \in SpanIds :
            IF spans[s].live THEN spans[s].ext = CreatedWith(s)
            ELSE spans[s].ext = NONE)
    /\ [][\A s \in SpanIds :
            (spans[s].live /\ spans'[s].live) => spans'[s].ext = spans[s].ext]_vars

\* A trace_id was recorded on a span created without one, which still has
\* no attachment, while a span created after it carries one.
WriteOnceWitness ==
    /\ last_op.op = "record"
    /\ spans[last_op.span].live /\ spans[last_op.span].registered
    /\ ~spans[last_op.span].ext.some
    /\ \E c \in SpanIds :
        /\ Registered(c) /\ spans[c].parent = last_op.span
        /\ spans[c].ext.some

\* C7: no logging call panics into the code that raised the event.
NeverPanics == \A t \in Threads : ~panicked[t]


\* The minimum severity a Config asks for.
MinSeverity ==
    IF config.level_filter = NoLevel THEN "INFO" ELSE config.level_filter

Below(level, min) == min = "OFF" \/ rank(level) < rank(min)

\* C5: an event below the minimum severity (INFO when the Config names
\* none) does not reach on_event and writes no line; an event at or above
\* it reaches on_event, and only such an event writes a line.
SeverityFilter ==
    (Running /\ last_op.op = "event") =>
        /\ Below(last_op.level, MinSeverity)
            => (~last_op.reached /\ ~last_op.line.some)
        /\ ~Below(last_op.level, MinSeverity) => last_op.reached
        /\ last_op.line.some => ~Below(last_op.level, MinSeverity)

\* Under the default filter a DEBUG event raised inside a span was dropped.
SeverityFilterWitness ==
    /\ config.level_filter = NoLevel
    /\ last_op.op = "event" /\ last_op.level = "DEBUG"
    /\ ~last_op.reached /\ ~last_op.line.some
    /\ \E t \in Threads : stack[t] # <<>>

\* C10: a span below the minimum severity is not registered with the layer
\* and carries no attachment, the resolution walk meets no such span, and an
\* event raised inside such spans only has no trace.
FilterAppliesToSpans ==
    Running =>
        /\ \A s \in SpanIds :
            (spans[s].live /\ Below(spans[s].level, MinSeverity))
                => (~spans[s].registered /\ ~spans[s].ext.some)
        /\ \A t \in Threads :
            /\ \A i \in DOMAIN event_scope(t) :
                  ~Below(spans[event_scope(t)[i]].level, MinSeverity)
            /\ (\A i \in DOMAIN stack[t] :
                    Below(spans[stack[t][i]].level, MinSeverity))
               => resolve_trace(t) = NONE

\* A line was written with no trace by a thread that is inside a span
\* below the minimum, created with a trace_id, and inside no other span.
FilteredSpanWitness ==
    /\ last_op.op = "event" /\ last_op.line.some
    /\ last_op.line.trace = NONE
    /\ \E t \in Threads :
        /\ stack[t] # <<>>
        /\ \A i \in DOMAIN stack[t] :
              /\ Below(spans[stack[t][i]].level, MinSeverity)
              /\ HasTraceId(spans[stack[t][i]].attrs)

IsPrefix(p, q) == Len(p) <= Len(q) /\ SubSeq(q, 1, Len(p)) = p

\* C8: with an explicit project id in the Config no request goes to the
\* metadata service, and the layer's project id, and with it the project
\* of every trace, is the explicit one.
ExplicitProjectId ==
    config.gcp_project_id.some =>
        /\ net_calls = 0
        /\ Running =>
            /\ gcp_project_id = config.gcp_project_id.val
            /\ \A t \in Threads :
                resolve_trace(t).some =>
                    IsPrefix(<<"projects/">> \o config.gcp_project_id.val
                                \o <<"/traces/">>,
                             resolve_trace(t).val)

\* With an explicit project id and a metadata service that would answer
\* with another id, a line with a trace was written.
ExplicitProjectIdWitness ==
    /\ Running
    /\ config.gcp_project_id.some
    /\ metadata.kind = "ok" /\ trim(metadata.body) = <<"q">>
    /\ last_op.op = "event" /\ last_op.line.trace.some

\* The characters of a project id.
ProjectIdChars == {"p", "q"}

Malformed(body) ==
    \/ trim(body) = <<>>
    \/ \E i \in DOMAIN trim(body) : trim(body)[i] \notin ProjectIdChars

\* The metadata query fails: no connection, a timeout, an error status, a
\* body that cannot be read or that is no project id.
FetchFails(md) == md.kind # "ok" \/ Malformed(md.body)

\* C9: with no explicit project id and a failing metadata query, init makes
\* one request and the project id is "unknown".
FetchFailureFallsBack ==
    (Running /\ ~config.gcp_project_id.some /\ FetchFails(metadata)) =>
        /\ gcp_project_id = Unknown
        /\ net_calls = 1

====
